---- MODULE Spec2Model ----
(***************************************************************************)
(* Model of the netronome clock engine (class Timer) together with its     *)
(* default time source, the audiocontext timing worker.                    *)
(*                                                                         *)
(* The engine runs on one JavaScript thread.  A call of an async method    *)
(* (start, stop, toggle) runs synchronously up to `await this.loaded` and  *)
(* is then continued from the microtask queue (variable pending); worker   *)
(* messages are macrotasks and are handled only when that queue is empty.  *)
(* The worker runs on its own thread and talks to the engine through two   *)
(* ordered message channels (toWorker, fromWorker).                        *)
(***************************************************************************)
EXTENDS Integers, Sequences, FiniteSets, TLC

\* ---- bounds of the model ------------------------------------------------
\* engines are constructed with 1..MaxDivisions divisions
MaxDivisions == 2
\* engines are constructed with MaxBars bars
MaxBars == 2
\* pulses are counted while totalBarsElapsed stays within MaxTotalBars
MaxTotalBars == 1
\* externalTrigger is called while divisionsElapsed stays within divisions + MaxOverrun
MaxOverrun == 0
\* the engine posts a command while fewer than MaxCommands are unhandled
MaxCommands == 1
\* the worker handles a command or fires its timer while fewer than MaxEvents
\* of its events are unhandled
MaxEvents == 1
\* the host calls an async method while fewer than MaxPending continuations wait
MaxPending == 1
\* a time source fires while it has counted fewer than MaxIntervals pulses
MaxIntervals == 3
\* a time source adds a timer loop while fewer than MaxTimers are active
MaxTimers == 2
MaxTaps == 3
MaxPulses == 64

\* the periods (ms per division) an engine may be constructed with
Periods == {1, 2}

\* the tempi (beats per minute) given to the BPM setters, tapTempo and the constructor
Tempos == {5, 20}
\* the times (ms per bar of divisions) given to the timeBetween setter
Times == {6000, 12000}

\* the times (ms) from one pulse of an adapter to the next
Steps == {1, 2, 3}

\* the times (ms) between one tap and the next: two within the timeout, one beyond
TapGaps == {600, 1200, 3000}

\* the intervals (ms) given to the index's startTimer()
Intervals == {1000, 12000}

\* the intervals (ms) a time source is started or updated with
Gaps == {2, 4}
\* the drifts (ms) a time source is told to correct
Drifts == {-5, 5}

\* ---- constants of the program --------------------------------------------
MAX_BARS_ALLOWED == 32
MICROSECONDS_PER_MINUTE == 60000
\* the floor of the BPM setter
MinimumBPM == 10
\* the defaults of the quick tap detector: its timeout (ms) and its minimum of taps
TAP_TIMEOUT == 2000
MINIMUM_TAPS == 2

VARIABLES
    running,            \* Timer.#running
    bypassed,           \* Timer.#bypassed
    timingWorkHandler,  \* TRUE iff Timer.timingWorkHandler is a worker (not null)
    onmessage,          \* which handler is installed on the worker's onmessage
    callback,           \* TRUE iff Timer.callback is set
    divisions,          \* Timer.divisions
    bars,               \* Timer.bars
    period,             \* Timer.period
    accurate,           \* Timer.options.accurate
    currentBar,         \* Timer.currentBar
    divisionsElapsed,   \* Timer.divisionsElapsed
    totalBarsElapsed,   \* Timer.totalBarsElapsed
    pending,            \* continuations of async methods waiting behind `await this.loaded`
    toWorker,           \* control messages posted to the worker, not yet handled by it
    fromWorker,         \* events posted by the worker, not yet handled by the engine
    wIsRunning,         \* worker: isRunning
    wTimerID,           \* worker: TRUE iff timerID !== null (a setInterval is active)
    cbInvoked,          \* observation: did the last engine step invoke the callback
    toggleRet,          \* observation: outcome of the toggle() that returned in the last engine step
    run,                \* observation: the current series of consecutive pulses of one source
    stopRequested,      \* observation: stop() was called and no start has been called since
    loading,            \* position of a setTimingWorklet() call that replaces the adapter
    wKind,              \* worker: which worker script it runs
    wGap,               \* worker: gap, the nominal interval in ms
    wAccurateTiming,    \* worker: accurateTiming
    wCumulativeDrift,   \* worker: cumulativeDrift in ms
    wTimers,            \* worker: the spacing, in tenths of a ms, of each timer loop that is active
    wExit,              \* worker: exit (rolling worker only)
    wIntervals,         \* worker: intervals, the pulses counted
    isCompatible,       \* Timer.isCompatible
    loaded,             \* Timer.loaded, the promise of the constructor's adapter set-up
    globalTimer,        \* index: TRUE iff globalTimer is not null; the engine is then that timer
    globalInterval,     \* observation: the interval given to the last startTimer() of the index
    tapCount,           \* tap detector: the taps in the current history
    tapGap,             \* observation: the time (ms) from the previous tap to the last one
    tapResult,          \* observation: what the last tapTempo() returned (as tapTempoQuick() did)
    pulses,             \* observation: the adapter pulses handled since the engine was started
    elapsed,            \* the time (ms) since the adapter started and the engine handled STARTING
    tickDrift,          \* observation: the drift of the last TickEvent, in thousandths
    timestampCache,     \* time-utils: the strings formatTimeStampFromSeconds has memoised
    stamped,            \* observation: the last call of formatTimeStampFromSeconds
    now,                \* the engine's clock (this.now), in ms
    lastRecordedExternalTime,
    externalTimePassed, \* observation: timePassed of the last TickEvent of externalTrigger
    onerror,            \* TRUE iff connectWorker has installed its handler on the worker's onerror
    wTicks              \* observation: the last two `intervals` numbers posted with a tick in this run

vars == <<running, bypassed, timingWorkHandler, onmessage, callback, divisions, bars,
          period, accurate, currentBar, divisionsElapsed, totalBarsElapsed,
          pending, toWorker, fromWorker, wIsRunning, wTimerID,
          cbInvoked, toggleRet, run, stopRequested,
          loading, wKind, wGap, wAccurateTiming, wCumulativeDrift, wTimers,
          wExit, wIntervals, wTicks, isCompatible, loaded,
          globalTimer, globalInterval, tapCount, tapGap, tapResult, pulses,
          elapsed, tickDrift, onerror, timestampCache, stamped, now,
          lastRecordedExternalTime, externalTimePassed>>

config == <<timingWorkHandler, divisions, bars, period, accurate>>
counters == <<currentBar, divisionsElapsed, totalBarsElapsed>>
worker == <<wIsRunning, wTimerID>>
source == <<wKind, wGap, wAccurateTiming, wCumulativeDrift, wTimers, wExit, wIntervals,
            wTicks>>
\* what the engine's run and its worker never touch
\* the outcome of the constructor's adapter set-up, and the index's own state
construction == <<isCompatible, loaded, globalTimer, globalInterval>>
\* the quick tap detector and what tapTempo() made of it
taps == <<tapCount, tapGap, tapResult>>
\* the pulses handled with their times
measures == <<pulses, elapsed, tickDrift>>
\* what the engine's run and its worker never touch, but for connectWorker's onerror
\* time-utils: the memo of formatTimeStampFromSeconds and its last call
stamps == <<timestampCache, stamped>>
\* the engine's clock and what externalTrigger keeps of it
external == <<now, lastRecordedExternalTime, externalTimePassed>>
rest == <<loading, source, construction, taps, measures, stamps>>
aside == <<rest, onerror, external>>

\* ---- messages -----------------------------------------------------------
CMD_START == "start"
CMD_STOP == "stop"
CMD_UPDATE == "update"
EVENT_STARTING == "starting"
EVENT_STOPPING == "stopping"
EVENT_TICK == "tick"

\* a start message that leaves the interval to the worker's default
StartPayloadNoInterval(interval, accurateTiming) ==
    [command |-> CMD_START, interval |-> 0, accurateTiming |-> accurateTiming]

StartPayload(interval, accurateTiming) ==
    [command |-> CMD_START, interval |-> interval, accurateTiming |-> accurateTiming]
StopPayload == [command |-> CMD_STOP, interval |-> 0, accurateTiming |-> FALSE]
UpdatePayload(interval) == [command |-> CMD_UPDATE, interval |-> interval, accurateTiming |-> FALSE]

Event(e) == [event |-> e]

\* ---- observations -------------------------------------------------------
NoToggle == [did |-> "none", ret |-> FALSE]
NoRun == [src |-> "none", n |-> 0, bars0 |-> 0]

\* formatTimeStampFromSeconds has not been called
NoStamp == [seconds |-> -1, string |-> <<>>]

\* no setTimingWorklet() call is waiting for its adapter
NotLoading == [active |-> FALSE, wasRunning |-> FALSE]

\* a pulse of source src was counted: start a series when the division
\* counter stood at 0, continue a series of the same source, else none
NextRun(src) ==
    IF divisionsElapsed = 0
    THEN [src |-> src, n |-> 1, bars0 |-> totalBarsElapsed]
    ELSE IF run.src = src /\ run.n < divisions
         THEN [run EXCEPT !.n = @ + 1]
         ELSE NoRun

Max(a, b) == IF a >= b THEN a ELSE b

\* ---- the engine's synchronous helpers ------------------------------------
\* onTick with the bar test one pulse late (> instead of >=)
onTickLate(de, cb, tb) ==
    IF de + 1 > divisions
    THEN [divisionsElapsed |-> 0, currentBar |-> (cb + 1) % bars, totalBarsElapsed |-> tb + 1]
    ELSE [divisionsElapsed |-> de + 1, currentBar |-> cb, totalBarsElapsed |-> tb]

\* Timer.onTick: the counters after one pulse
onTick(de, cb, tb) ==
    IF de + 1 >= divisions
    THEN [divisionsElapsed |-> 0, currentBar |-> (cb + 1) % bars, totalBarsElapsed |-> tb + 1]
    ELSE [divisionsElapsed |-> de + 1, currentBar |-> cb, totalBarsElapsed |-> tb]

\* resetTimer zeroing the bar total only, as startTimer does
resetTimerBarsOnly ==
    [divisionsElapsed |-> divisionsElapsed, currentBar |-> currentBar, totalBarsElapsed |-> 0]

\* Timer.resetTimer
resetTimer == [divisionsElapsed |-> 0, currentBar |-> 0, totalBarsElapsed |-> 0]

\* the counters hold c
CountersAre(c) ==
    /\ divisionsElapsed = c.divisionsElapsed
    /\ currentBar = c.currentBar
    /\ totalBarsElapsed = c.totalBarsElapsed

SetCounters(c) ==
    /\ divisionsElapsed' = c.divisionsElapsed
    /\ currentBar' = c.currentBar
    /\ totalBarsElapsed' = c.totalBarsElapsed

\* Timer.disconnectWorker(this.timingWorkHandler, setStopped)
disconnectWorker(setStopped) ==
    IF ~timingWorkHandler
    THEN /\ UNCHANGED <<onmessage, toWorker>>
    ELSE /\ onmessage' = (IF setStopped THEN "stopping" ELSE "detached")
         /\ toWorker' = Append(toWorker, StopPayload)

\* the worker scripts: timing.audiocontext.worker.ts, timing.rolling.worker.ts,
\* the setTimeout worker and the setInterval worker
Kinds == {"audiocontext", "rolling", "timeout", "interval"}

\* the module-level state that differs between the worker scripts
WorkerLoaded(k) ==
    /\ wKind = k
    /\ wGap = (IF k = "rolling" THEN 0 ELSE -1)

\* the promise `loaded` while the constructor's setTimingWorker() or
\* setTimingWorklet() call has not settled, and once it has
LoadedPending == {"pending setTimingWorker", "pending setTimingWorklet"}
LoadedSettled == {"fulfilled", "rejected"}

\* the fields of an engine as their initialisers leave them
Fresh ==
    /\ running = FALSE
    /\ bypassed = FALSE
    /\ isCompatible = FALSE
    /\ globalTimer = FALSE
    /\ globalInterval = 0
    /\ tapCount = 0
    /\ tapGap = 0
    /\ tapResult = -1
    /\ pulses = 0
    /\ elapsed = 0
    /\ tickDrift = 0
    /\ onerror = FALSE
    /\ timestampCache = <<>>
    /\ stamped = NoStamp
    /\ now = 0
    /\ lastRecordedExternalTime = 0
    /\ externalTimePassed = 0
    /\ onmessage = "none"
    /\ callback \in BOOLEAN
    /\ currentBar = 0
    /\ divisionsElapsed = 0
    /\ totalBarsElapsed = 0
    /\ pending = <<>>
    /\ toWorker = <<>>
    /\ fromWorker = <<>>
    /\ wIsRunning = FALSE
    /\ wTimerID = FALSE
    /\ cbInvoked = FALSE
    /\ toggleRet = NoToggle
    /\ run = NoRun
    /\ stopRequested = FALSE
    /\ loading = NotLoading
    /\ wAccurateTiming = TRUE
    /\ wCumulativeDrift = 0
    /\ wTimers = <<>>
    /\ wExit = FALSE
    /\ wIntervals = 0
    /\ wTicks = <<>>

\* the state of a constructed engine whose `loaded` has been fulfilled, with an
\* adapter or (setTimingWorker having failed) without one, whatever its options
Constructed ==
    /\ Fresh
    /\ timingWorkHandler \in BOOLEAN
    /\ loaded = "fulfilled"

\* engines of every division count, at one tempo, accurate timing off (the default)
Init ==
    /\ Constructed
    /\ divisions \in 1..MaxDivisions
    /\ bars = MaxBars
    /\ period = CHOOSE p \in Periods : \A q \in Periods : p <= q
    /\ accurate = FALSE
    /\ WorkerLoaded("audiocontext")

\* engines of the smallest bar layout, at every tempo, accurate timing on or off
InitOptions ==
    /\ Constructed
    /\ divisions = 1
    /\ bars = 1
    /\ period \in Periods
    /\ accurate \in BOOLEAN
    /\ WorkerLoaded("audiocontext")

\* the bars options engines are constructed with: small ones and one above the cap
BarsOptions == (1..MaxBars) \cup {MAX_BARS_ALLOWED + 1}

\* engines of every division count, bars option and bpm option; the constructor
\* assigns bars and divisions to the fields and passes bpm to the BPM setter
InitSetters ==
    /\ Constructed
    /\ divisions \in 1..MaxDivisions
    /\ bars \in BarsOptions
    /\ \E bpm \in Tempos :
         period = (MICROSECONDS_PER_MINUTE \div Max(MinimumBPM, bpm)) \div divisions
    /\ accurate = FALSE
    /\ WorkerLoaded("audiocontext")

\* a time source on its own, freshly loaded; the engine is idle throughout
InitSource ==
    /\ Constructed
    /\ timingWorkHandler = TRUE
    /\ callback = FALSE
    /\ divisions = 1
    /\ bars = 1
    /\ period = CHOOSE p \in Periods : \A q \in Periods : p <= q
    /\ accurate = FALSE
    /\ \E k \in Kinds : WorkerLoaded(k)

\* ---- host calls (synchronous part) ---------------------------------------
Continuation(op, cb, toggle) == [op |-> op, cb |-> cb, toggle |-> toggle]

\* Timer.start(): startTimer(this.callback) runs up to `await this.loaded`
Start ==
    /\ Len(pending) < MaxPending
    /\ pending' = Append(pending, Continuation("start", callback, FALSE))
    /\ cbInvoked' = FALSE /\ toggleRet' = NoToggle /\ run' = NoRun
    /\ UNCHANGED <<running, bypassed, onmessage, callback, config, counters,
                   toWorker, fromWorker, worker>>
    /\ stopRequested' = FALSE
    /\ UNCHANGED aside

\* Timer.stop(): stopTimer() runs up to `await this.loaded`
Stop ==
    /\ Len(pending) < MaxPending
    /\ pending' = Append(pending, Continuation("stop", FALSE, FALSE))
    /\ cbInvoked' = FALSE /\ toggleRet' = NoToggle /\ run' = NoRun
    /\ UNCHANGED <<running, bypassed, onmessage, callback, config, counters,
                   toWorker, fromWorker, worker>>
    /\ stopRequested' = TRUE
    /\ UNCHANGED aside

\* Timer.toggle(): toggleTimer(this.callback) up to its first await
Toggle ==
    /\ cbInvoked' = FALSE /\ run' = NoRun
    /\ IF bypassed
       THEN /\ toggleRet' = [did |-> "bypassed", ret |-> running]
            /\ UNCHANGED pending
       ELSE /\ Len(pending) < MaxPending
            /\ toggleRet' = NoToggle
            /\ pending' = Append(pending,
                    IF ~running THEN Continuation("start", callback, TRUE)
                                ELSE Continuation("stop", FALSE, TRUE))
    /\ UNCHANGED <<running, bypassed, onmessage, callback, config, counters,
                   toWorker, fromWorker, worker>>
    /\ stopRequested' = (IF bypassed THEN stopRequested ELSE running)
    /\ UNCHANGED aside

\* bypass(true) without the early return for an engine already bypassed
BypassOnAgain ==
    /\ bypassed' = TRUE
    /\ IF running
       THEN /\ timingWorkHandler => Len(toWorker) < MaxCommands
            /\ disconnectWorker(FALSE)
       ELSE UNCHANGED <<onmessage, toWorker>>
    /\ cbInvoked' = FALSE /\ toggleRet' = NoToggle /\ run' = NoRun
    /\ UNCHANGED <<running, callback, config, counters, pending, fromWorker, worker>>
    /\ UNCHANGED stopRequested
    /\ UNCHANGED aside

\* Timer.bypass(true)
BypassOn ==
    /\ IF bypassed
       THEN UNCHANGED <<bypassed, onmessage, toWorker>>
       ELSE /\ bypassed' = TRUE
            /\ IF running
               THEN /\ timingWorkHandler => Len(toWorker) < MaxCommands
                    /\ disconnectWorker(FALSE)
               ELSE UNCHANGED <<onmessage, toWorker>>
    /\ cbInvoked' = FALSE /\ toggleRet' = NoToggle /\ run' = NoRun
    /\ UNCHANGED <<running, callback, config, counters, pending, fromWorker, worker>>
    /\ UNCHANGED stopRequested
    /\ UNCHANGED aside

\* bypass(false) that clears the flag and never restarts the adapter
BypassOffNoRestart ==
    /\ IF ~bypassed
       THEN UNCHANGED <<bypassed, pending>>
       ELSE /\ bypassed' = FALSE
            /\ UNCHANGED pending
    /\ cbInvoked' = FALSE /\ toggleRet' = NoToggle /\ run' = NoRun
    /\ UNCHANGED <<running, onmessage, callback, config, counters,
                   toWorker, fromWorker, worker>>
    /\ stopRequested' = (IF bypassed /\ running THEN FALSE ELSE stopRequested)
    /\ UNCHANGED aside

\* Timer.bypass(false)
BypassOff ==
    /\ IF ~bypassed
       THEN UNCHANGED <<bypassed, pending>>
       ELSE /\ bypassed' = FALSE
            /\ IF running
               THEN /\ Len(pending) < MaxPending
                    /\ pending' = Append(pending, Continuation("start", FALSE, FALSE))
               ELSE UNCHANGED pending
    /\ cbInvoked' = FALSE /\ toggleRet' = NoToggle /\ run' = NoRun
    /\ UNCHANGED <<running, onmessage, callback, config, counters,
                   toWorker, fromWorker, worker>>
    /\ stopRequested' = (IF bypassed /\ running THEN FALSE ELSE stopRequested)
    /\ UNCHANGED aside

\* Timer.externalTrigger(advance)
externalTrigger(advance) ==
    LET unticked == [divisionsElapsed |-> divisionsElapsed, currentBar |-> currentBar,
                     totalBarsElapsed |-> totalBarsElapsed]
        ticked == IF running /\ bypassed
                  THEN onTick(divisionsElapsed, currentBar, totalBarsElapsed)
                  ELSE unticked
        timestamp == now
        \* read after lastRecordedExternalTime has been set to timestamp
        elapsedSinceLastClock == timestamp - lastRecordedExternalTime'
        after == IF advance
                 THEN [ticked EXCEPT !.divisionsElapsed = @ + 1]
                 ELSE ticked
    IN  /\ after.totalBarsElapsed <= MaxTotalBars
        /\ after.divisionsElapsed <= divisions + MaxOverrun
        /\ SetCounters(after)
        /\ cbInvoked' = (running /\ bypassed /\ callback)
        /\ toggleRet' = NoToggle
        /\ run' = (IF advance THEN NextRun("ext") ELSE NoRun)
        /\ lastRecordedExternalTime' = timestamp
        /\ externalTimePassed' =
               (IF running /\ bypassed THEN elapsedSinceLastClock ELSE externalTimePassed)
        /\ UNCHANGED stopRequested
        /\ UNCHANGED <<running, bypassed, onmessage, callback, config,
                       pending, toWorker, fromWorker, worker>>
        /\ UNCHANGED <<rest, onerror, now>>

\* Timer.externalTrigger() with the default advance = true
ExternalTrigger == externalTrigger(TRUE)

\* Timer.retrigger()
Retrigger == externalTrigger(FALSE)

\* Timer.resetTimer() called by the host
ResetTimer ==
    /\ SetCounters(resetTimer)
    /\ cbInvoked' = FALSE /\ toggleRet' = NoToggle /\ run' = NoRun
    /\ UNCHANGED <<running, bypassed, onmessage, callback, config,
                   pending, toWorker, fromWorker, worker>>
    /\ UNCHANGED stopRequested
    /\ UNCHANGED aside

\* Timer.setCallback(callback)
SetCallback ==
    /\ ~callback
    /\ callback' = TRUE
    /\ cbInvoked' = FALSE /\ toggleRet' = NoToggle /\ run' = NoRun
    /\ UNCHANGED <<running, bypassed, onmessage, config, counters,
                   pending, toWorker, fromWorker, worker>>
    /\ UNCHANGED stopRequested
    /\ UNCHANGED aside

\* the timeBetween setter: the period is set and posted to the adapter
timeBetween(time) ==
    /\ time % divisions = 0
    /\ period' = time \div divisions
    /\ IF timingWorkHandler
       THEN /\ Len(toWorker) < MaxCommands
            /\ toWorker' = Append(toWorker, UpdatePayload(period'))
       ELSE UNCHANGED toWorker

\* the BPM setter
BPM(value) ==
    /\ MICROSECONDS_PER_MINUTE % Max(MinimumBPM, value) = 0
    /\ timeBetween(MICROSECONDS_PER_MINUTE \div Max(MinimumBPM, value))

\* Timer.timeBetween = time
SetTimeBetween(time) ==
    /\ timeBetween(time)
    /\ cbInvoked' = FALSE /\ toggleRet' = NoToggle /\ run' = NoRun
    /\ UNCHANGED <<running, bypassed, timingWorkHandler, onmessage, callback,
                   divisions, bars, accurate, counters, pending, fromWorker, worker>>
    /\ UNCHANGED stopRequested
    /\ UNCHANGED aside

\* Timer.timeBetween = a whole number of the periods an engine may be constructed with
TimeBetween == \E p \in Periods : SetTimeBetween(p * divisions)

\* Timer.BPM = value (also Timer.bpm and Timer.tempo, which delegate to it)
SetBPM(value) ==
    /\ MICROSECONDS_PER_MINUTE % Max(MinimumBPM, value) = 0
    /\ SetTimeBetween(MICROSECONDS_PER_MINUTE \div Max(MinimumBPM, value))

\* Timer.BPM = one of the tempi
ChangeBPM == \E value \in Tempos : SetBPM(value)

\* Timer.timeBetween = one of the times
ChangeTimeBetween == \E time \in Times : SetTimeBetween(time)

\* tapTempoQuick() whose history never times out
tapTempoQuickNoTimeout(gap) ==
    LET count == tapCount + 1
    IN  [count |-> count,
         tempo |-> IF count < MINIMUM_TAPS THEN -1 ELSE MICROSECONDS_PER_MINUTE \div gap]

\* tapTempoQuick() called `gap` ms after the previous tap: the taps then in the
\* history and the tempo returned
tapTempoQuick(gap) ==
    LET count == IF tapCount = 0 \/ gap > TAP_TIMEOUT THEN 1 ELSE tapCount + 1
    IN  [count |-> count,
         tempo |-> IF count < MINIMUM_TAPS THEN -1 ELSE MICROSECONDS_PER_MINUTE \div gap]

\* tapTempo() applying no tempo at all
tapTempoAppliesNever(tempo) == FALSE

\* Timer.tapTempo: is the tempo of the detector applied; it is then returned
tapTempoApplies(tempo) == tempo > -1

\* Timer.tapTempo()
TapTempo ==
    \E gap \in TapGaps :
        LET tap == tapTempoQuick(gap) IN
        /\ tap.count <= MaxTaps
        /\ MICROSECONDS_PER_MINUTE % gap = 0
        /\ tapCount' = tap.count
        /\ tapGap' = gap
        /\ IF tapTempoApplies(tap.tempo)
           THEN /\ BPM(tap.tempo)
                /\ tapResult' = tap.tempo
           ELSE /\ tapResult' = -1
                /\ UNCHANGED <<period, toWorker>>
        /\ cbInvoked' = FALSE /\ toggleRet' = NoToggle /\ run' = NoRun
        /\ UNCHANGED <<running, bypassed, timingWorkHandler, onmessage, callback,
                       divisions, bars, accurate, counters, pending, fromWorker, worker,
                       stopRequested, loading, source, construction, measures, onerror,
                       stamps, external>>

\* Timer.totalBars = value
SetTotalBars(value) ==
    /\ bars' = (IF value < 1 THEN 1
                ELSE IF value > MAX_BARS_ALLOWED THEN MAX_BARS_ALLOWED ELSE value)
    /\ cbInvoked' = FALSE /\ toggleRet' = NoToggle /\ run' = NoRun
    /\ UNCHANGED <<running, bypassed, timingWorkHandler, onmessage, callback, divisions,
                   period, accurate, counters, pending, toWorker, fromWorker, worker,
                   stopRequested, aside>>

\* Timer.totalBars = a value below, within or above the allowed range
ChangeTotalBars == \E value \in (0..MaxBars) \cup {MAX_BARS_ALLOWED + 1} : SetTotalBars(value)

\* Timer.bar = value
SetBar(value) ==
    /\ currentBar' = value
    /\ cbInvoked' = FALSE /\ toggleRet' = NoToggle /\ run' = NoRun
    /\ UNCHANGED <<running, bypassed, onmessage, callback, config, divisionsElapsed,
                   totalBarsElapsed, pending, toWorker, fromWorker, worker,
                   stopRequested, aside>>

\* Timer.bar = a bar number up to MaxBars
ChangeBar == \E value \in 0..MaxBars : SetBar(value)

\* ---- continuations of the async methods ----------------------------------
\* after a continuation of toggleTimer's inner call, toggleTimer resumes later
AfterBody(p, resolved, did) ==
    IF p.toggle /\ resolved
    THEN Append(Tail(pending), Continuation(did, FALSE, TRUE))
    ELSE Tail(pending)

\* `await this.loaded` throws in the awaiting method when the promise was rejected
awaitLoadedThrows == loaded = "rejected"

\* Timer.connectWorker(this.timingWorkHandler) throws when there is no adapter
connectWorkerThrows == ~timingWorkHandler

\* Timer.startTimer after `await this.loaded`
StartTimerBody ==
    /\ pending # <<>>
    /\ Head(pending).op = "start"
    /\ loaded \in LoadedSettled
    /\ LET p == Head(pending) IN
        IF awaitLoadedThrows
        THEN /\ pending' = AfterBody(p, FALSE, "returnStart")
             /\ UNCHANGED <<totalBarsElapsed, callback, running, onmessage, toWorker>>
        ELSE
        /\ totalBarsElapsed' = (IF ~running THEN 0 ELSE totalBarsElapsed)
        /\ callback' = (callback \/ p.cb)
        /\ IF bypassed
           THEN /\ running' = TRUE
                /\ pending' = AfterBody(p, TRUE, "returnStart")
                /\ UNCHANGED <<onmessage, toWorker>>
           ELSE IF connectWorkerThrows
           THEN \* the promise rejects
                /\ pending' = AfterBody(p, FALSE, "returnStart")
                /\ UNCHANGED <<running, onmessage, toWorker>>
           ELSE /\ Len(toWorker) < MaxCommands
                /\ onmessage' = "connected"
                /\ toWorker' = Append(toWorker, StartPayload(period, accurate))
                /\ pending' = AfterBody(p, TRUE, "returnStart")
                /\ UNCHANGED running
    /\ cbInvoked' = FALSE /\ toggleRet' = NoToggle /\ run' = NoRun
    /\ onerror' = (onerror \/ (~awaitLoadedThrows /\ ~bypassed /\ ~connectWorkerThrows))
    /\ UNCHANGED <<bypassed, config, currentBar, divisionsElapsed, fromWorker, worker>>
    /\ UNCHANGED stopRequested
    /\ UNCHANGED <<rest, external>>

\* Timer.stopTimer after `await this.loaded`
StopTimerBody ==
    /\ pending # <<>>
    /\ Head(pending).op = "stop"
    /\ loaded \in LoadedSettled
    /\ IF awaitLoadedThrows
       THEN /\ pending' = AfterBody(Head(pending), FALSE, "returnStop")
            /\ UNCHANGED <<onmessage, toWorker>>
       ELSE /\ timingWorkHandler => Len(toWorker) < MaxCommands
            /\ disconnectWorker(TRUE)
            /\ pending' = AfterBody(Head(pending), TRUE, "returnStop")
    /\ cbInvoked' = FALSE /\ toggleRet' = NoToggle /\ run' = NoRun
    /\ UNCHANGED <<running, bypassed, callback, config, counters, fromWorker, worker>>
    /\ UNCHANGED stopRequested
    /\ UNCHANGED aside

\* Timer.toggleTimer after its await: `return this.#running`
ToggleReturn ==
    /\ pending # <<>>
    /\ Head(pending).op \in {"returnStart", "returnStop"}
    /\ toggleRet' = [did |-> (IF Head(pending).op = "returnStart" THEN "start" ELSE "stop"),
                     ret |-> running]
    /\ pending' = Tail(pending)
    /\ cbInvoked' = FALSE /\ run' = NoRun
    /\ UNCHANGED <<running, bypassed, onmessage, callback, config, counters,
                   toWorker, fromWorker, worker>>
    /\ UNCHANGED stopRequested
    /\ UNCHANGED aside

\* ---- replacing the adapter --------------------------------------------------
\* a continuation of setTimingWorklet with its local wasRunning
Reinit(op, wasRunning) == [op |-> op, cb |-> FALSE, toggle |-> FALSE, wasRunning |-> wasRunning]

\* Timer.setTimingWorklet(): up to its first await, one call at a time
SetTimingWorklet ==
    /\ ~loading.active
    /\ \A i \in 1..Len(pending) : pending[i].op \notin {"unsetStop", "unset"}
    /\ IF timingWorkHandler
       THEN \* unsetTimingWorker() -> stopTimer() -> await this.loaded
            /\ Len(pending) < MaxPending
            /\ pending' = Append(pending, Reinit("unsetStop", running))
            /\ UNCHANGED loading
       ELSE \* await import(...)
            /\ loading' = [active |-> TRUE, wasRunning |-> running]
            /\ UNCHANGED pending
    /\ cbInvoked' = FALSE /\ toggleRet' = NoToggle /\ run' = NoRun
    /\ UNCHANGED <<running, bypassed, onmessage, callback, config, counters,
                   toWorker, fromWorker, worker, stopRequested, source, construction, taps, measures,
                   onerror, stamps, external>>

\* Timer.stopTimer after `await this.loaded`, called by unsetTimingWorker
UnsetStopBody ==
    /\ pending # <<>>
    /\ Head(pending).op = "unsetStop"
    /\ loaded = "fulfilled"
    /\ timingWorkHandler => Len(toWorker) < MaxCommands
    /\ disconnectWorker(TRUE)
    /\ pending' = Append(Tail(pending), Reinit("unset", Head(pending).wasRunning))
    /\ cbInvoked' = FALSE /\ toggleRet' = NoToggle /\ run' = NoRun
    /\ UNCHANGED <<running, bypassed, callback, config, counters, fromWorker, worker,
                   stopRequested, aside>>

\* Timer.unsetTimingWorker after `await this.stopTimer()`, and setTimingWorklet
\* up to `await import(...)`: the adapter is dropped with all it was about to
\* receive and deliver
UnsetBody ==
    /\ pending # <<>>
    /\ Head(pending).op = "unset"
    /\ timingWorkHandler' = FALSE
    /\ onmessage' = "none"
    /\ toWorker' = <<>> /\ fromWorker' = <<>>
    /\ wIsRunning' = FALSE /\ wTimerID' = FALSE
    /\ pending' = Tail(pending)
    /\ loading' = [active |-> TRUE, wasRunning |-> Head(pending).wasRunning]
    /\ cbInvoked' = FALSE /\ toggleRet' = NoToggle /\ run' = NoRun
    /\ onerror' = FALSE
    /\ UNCHANGED <<running, bypassed, callback, divisions, bars, period, accurate,
                   counters, stopRequested, source, construction, taps, measures,
                   stamps, external>>

\* Timer.setTimingWorklet after `await createTimingProcessor(...)`, which
\* resolves with the new adapter or throws
AdapterLoaded ==
    /\ loading.active
    /\ pending = <<>>
    /\ loading' = NotLoading
    /\ \E ok \in BOOLEAN :
        /\ timingWorkHandler' = ok
        /\ pending' = (IF ok /\ loading.wasRunning
                       THEN <<Continuation("start", FALSE, FALSE)>>
                       ELSE <<>>)
    /\ cbInvoked' = FALSE /\ toggleRet' = NoToggle /\ run' = NoRun
    /\ UNCHANGED <<running, bypassed, onmessage, callback, divisions, bars, period,
                   accurate, counters, toWorker, fromWorker, worker, stopRequested, source, construction, taps, measures,
                   onerror, stamps, external>>

\* ---- worker events handled by the engine ---------------------------------
\* createTick counting every pulse, running or not
createTickAlways == onTick(divisionsElapsed, currentBar, totalBarsElapsed)

\* Timer.createTick: the counters after an adapter pulse
createTick ==
    IF running
    THEN onTick(divisionsElapsed, currentBar, totalBarsElapsed)
    ELSE [divisionsElapsed |-> divisionsElapsed, currentBar |-> currentBar,
          totalBarsElapsed |-> totalBarsElapsed]

\* createTick handing every pulse to the callback, running or not
callbackOnTickAlways == callback

\* Timer.createTick and Timer.onTick: is the callback invoked for an adapter pulse
callbackOnTick == running /\ callback

\* the worker's onmessage handler installed by connectWorker / disconnectWorker
OnMessage ==
    /\ pending = <<>>
    /\ fromWorker # <<>>
    /\ fromWorker' = Tail(fromWorker)
    /\ LET e == Head(fromWorker).event IN
        CASE onmessage = "connected" /\ e = EVENT_STARTING ->
                /\ running' = TRUE
                /\ SetCounters(resetTimer)
                /\ cbInvoked' = FALSE /\ run' = NoRun
          [] onmessage = "connected" /\ e = EVENT_TICK ->
                /\ createTick.totalBarsElapsed <= MaxTotalBars
                /\ SetCounters(createTick)
                /\ cbInvoked' = callbackOnTick
                /\ run' = (IF running THEN NextRun("tick") ELSE NoRun)
                /\ UNCHANGED running
          [] onmessage = "stopping" /\ e = EVENT_STOPPING ->
                /\ running' = FALSE
                /\ cbInvoked' = FALSE /\ run' = NoRun
                /\ UNCHANGED counters
          [] OTHER ->
                /\ cbInvoked' = FALSE /\ run' = NoRun
                /\ UNCHANGED <<running, counters>>
    /\ toggleRet' = NoToggle
    /\ UNCHANGED <<bypassed, onmessage, callback, config, pending, toWorker, worker>>
    /\ UNCHANGED stopRequested
    /\ UNCHANGED aside

\* ---- the timing worker ---------------------------------------------------
\* start(interval) announcing a run whether or not one is under way
workerStartAnnouncing == <<Event(EVENT_STARTING), Event(EVENT_TICK)>>

\* worker: start(interval), the events it posts
workerStart == (IF ~wIsRunning THEN <<Event(EVENT_STARTING)>> ELSE <<>>)
                    \o <<Event(EVENT_TICK)>>

\* worker: self.onmessage
WorkerOnMessage ==
    /\ toWorker # <<>>
    /\ toWorker' = Tail(toWorker)
    /\ CASE Head(toWorker).command \in {CMD_START, CMD_UPDATE} ->
                /\ Len(fromWorker) < MaxEvents
                /\ fromWorker' = fromWorker \o workerStart
                /\ wIsRunning' = TRUE
                /\ wTimerID' = TRUE
         [] Head(toWorker).command = CMD_STOP ->
                /\ Len(fromWorker) < MaxEvents
                /\ fromWorker' = Append(fromWorker, Event(EVENT_STOPPING))
                /\ wIsRunning' = FALSE
                /\ wTimerID' = FALSE
         [] OTHER -> UNCHANGED <<fromWorker, worker>>   \* no case of the switch
    /\ UNCHANGED <<running, bypassed, onmessage, callback, config, counters,
                   pending, cbInvoked, toggleRet, run, stopRequested>>
    /\ UNCHANGED aside

\* worker: the setInterval callback installed by loop()
WorkerTick ==
    /\ wTimerID
    /\ Len(fromWorker) < MaxEvents
    /\ fromWorker' = Append(fromWorker, Event(EVENT_TICK))
    /\ UNCHANGED <<running, bypassed, onmessage, callback, config, counters,
                   pending, toWorker, worker, cbInvoked, toggleRet, run,
                   stopRequested>>
    /\ UNCHANGED aside

\* ---- the time sources on their own -----------------------------------------
\* times are in tenths of a ms, so that a tenth of a drift given in ms is exact
\* everything but the worker's state
host == <<running, bypassed, timingWorkHandler, onmessage, callback, divisions, bars,
          period, accurate, currentBar, divisionsElapsed, totalBarsElapsed,
          pending, toWorker, fromWorker, cbInvoked, toggleRet, run, stopRequested,
          loading, isCompatible, loaded, globalTimer, globalInterval, tapCount, tapGap,
          tapResult, pulses, elapsed, tickDrift, onerror, timestampCache, stamped, now,
          lastRecordedExternalTime, externalTimePassed>>

\* loop of the audiocontext, setTimeout and setInterval workers: compensatedInterval
\* (accurateTiming is read as the handler that calls loop has just left it)
compensatedInterval(interval, drift) ==
    IF wAccurateTiming' /\ drift # 0
    THEN Max(interval - drift, 10)
    ELSE interval

\* loop of the rolling worker: compensatedGap
compensatedGap(g, drift) == 10 * Max(g - drift, 1)

\* clearInterval(timerID): timerID, when it is live, is the timer created last
clearTimer(ts, live) == IF live /\ ts # <<>> THEN SubSeq(ts, 1, Len(ts) - 1) ELSE ts

\* loop(interval) called with the timers ts active: the timers active after it.
\* Only the audiocontext worker clears timerID first.
loop(ts, live, interval, drift) ==
    Append(IF wKind = "audiocontext" THEN clearTimer(ts, live) ELSE ts,
           compensatedInterval(interval, drift))

\* the tick numbers of the run after a tick carrying `intervals` n is posted
postTick(ts, n) == IF ts = <<>> THEN <<n>> ELSE <<ts[Len(ts)], n>>

\* start(interval) of every worker: a STARTING event opens a run when the worker
\* was not running; the INITIAL tick carries the current `intervals`
start(interval) ==
    /\ wGap' = interval
    /\ wIsRunning' = TRUE
    /\ wTicks' = postTick(IF wIsRunning THEN wTicks ELSE <<>>, wIntervals)
    /\ IF wKind = "rolling"
       THEN LET alive == clearTimer(wTimers, wIsRunning /\ wTimerID) IN
            IF wExit
            THEN \* loop() returns at once on the exit flag
                 /\ wExit' = FALSE
                 /\ wTimers' = [i \in 1..Len(alive) |-> 10 * interval]
                 /\ wTimerID' = (wTimerID /\ ~wIsRunning)
            ELSE /\ wTimers' = [i \in 1..(Len(alive) + 1) |-> 10 * interval]
                 /\ wTimerID' = TRUE
                 /\ UNCHANGED wExit
       ELSE /\ wTimers' = loop(clearTimer(wTimers, wIsRunning /\ wTimerID),
                               wTimerID /\ ~wIsRunning, 10 * interval, wCumulativeDrift)
            /\ wTimerID' = TRUE
            /\ UNCHANGED wExit

\* self.onmessage, CMD_START
SourceStart ==
    /\ \E interval \in Gaps, accurateTiming \in BOOLEAN :
        /\ wAccurateTiming' = accurateTiming
        /\ start(interval)
    /\ UNCHANGED <<host, wKind, wCumulativeDrift, wIntervals>>

\* self.onmessage, CMD_UPDATE
SourceUpdate ==
    /\ wAccurateTiming' = wAccurateTiming
    /\ \E interval \in Gaps : start(interval)
    /\ UNCHANGED <<host, wKind, wCumulativeDrift, wIntervals>>

\* self.onmessage, CMD_STOP
SourceStop ==
    /\ wIsRunning' = FALSE
    /\ wTicks' = <<>>
    /\ IF wKind = "rolling"
       THEN /\ wExit' = TRUE
            /\ UNCHANGED <<wTimers, wTimerID>>
       ELSE /\ wTimers' = clearTimer(wTimers, wTimerID)
            /\ wTimerID' = FALSE
            /\ UNCHANGED wExit
    /\ UNCHANGED <<host, wKind, wGap, wAccurateTiming, wCumulativeDrift, wIntervals>>

\* self.onmessage, CMD_ADJUST_DRIFT with a drift
SourceAdjustDrift ==
    /\ wAccurateTiming' = wAccurateTiming
    /\ \E drift \in Drifts :
        /\ wCumulativeDrift' = drift
        /\ IF wKind \in {"audiocontext", "interval"} /\ wIsRunning
           THEN /\ Len(wTimers) < MaxTimers
                /\ wTimers' = loop(wTimers, wTimerID, 10 * wGap, drift)
                /\ wTimerID' = TRUE
           ELSE UNCHANGED <<wTimers, wTimerID>>
    /\ UNCHANGED <<host, wKind, wGap, wIsRunning, wExit, wIntervals, wTicks>>

\* the `intervals` a timer's tick carries: the audiocontext worker posts
\* intervals++, the other workers increment first and post the new count
tickNumber == IF wKind = "audiocontext" THEN wIntervals ELSE wIntervals + 1

\* a timer of the worker fires and a pulse is posted
SourcePulse ==
    /\ wTimers # <<>>
    /\ wIntervals < MaxIntervals
    /\ wIntervals' = wIntervals + 1
    /\ wTicks' = (IF wIsRunning THEN postTick(wTicks, tickNumber) ELSE wTicks)
    /\ wAccurateTiming' = wAccurateTiming
    /\ CASE wKind = "rolling" ->
                /\ ~wExit
                /\ wTimers' = [i \in 1..Len(wTimers) |-> compensatedGap(wGap, wCumulativeDrift)]
          [] wKind = "timeout" ->
                \* the timeout re-arms itself with loop(nextInterval); nextInterval is
                \* this loop's compensatedInterval, its `difference` term being below
                \* the resolution of the model
                \E i \in 1..Len(wTimers) :
                    wTimers' = [wTimers EXCEPT
                                 ![i] = compensatedInterval(@, wCumulativeDrift)]
          [] OTHER -> UNCHANGED wTimers
    /\ UNCHANGED <<host, wKind, wGap, wIsRunning, wTimerID, wCumulativeDrift, wExit>>

\* the rolling worker's loop runs with the exit flag set
SourceLoopExit ==
    /\ wKind = "rolling"
    /\ wExit
    /\ wTimers # <<>>
    /\ wExit' = FALSE
    /\ wTimers' = <<>>
    /\ wTimerID' = FALSE
    /\ UNCHANGED <<host, wKind, wGap, wIsRunning, wAccurateTiming, wCumulativeDrift,
                   wIntervals, wTicks>>

NextSource ==
    \/ SourceStart
    \/ SourceUpdate
    \/ SourceStop
    \/ SourceAdjustDrift
    \/ SourcePulse
    \/ SourceLoopExit

SpecSource == InitSource /\ [][NextSource]_vars

\* ---- construction ------------------------------------------------------------
\* the constructor has returned: options.type selected setTimingWorker or
\* setTimingWorklet, and its promise, stored in `loaded`, has not settled
InitConstruct ==
    /\ Fresh
    /\ timingWorkHandler = FALSE
    /\ loaded \in LoadedPending
    /\ divisions = 1
    /\ bars = 1
    /\ period \in Periods
    /\ accurate = FALSE
    /\ WorkerLoaded("audiocontext")

\* the constructor's setTimingWorker() or setTimingWorklet() call settles: the
\* adapter was created, or creating it threw. setTimingWorker catches the error
\* and returns null, setTimingWorklet rethrows it
ConstructorLoaded ==
    /\ loaded \in LoadedPending
    /\ \E ok \in BOOLEAN :
        /\ timingWorkHandler' = ok
        /\ IF ok
           THEN /\ loaded' = "fulfilled"
                /\ UNCHANGED isCompatible
           ELSE IF loaded = "pending setTimingWorker"
           THEN /\ isCompatible' = FALSE
                /\ loaded' = "fulfilled"
           ELSE /\ loaded' = "rejected"
                /\ UNCHANGED isCompatible
    /\ cbInvoked' = FALSE /\ toggleRet' = NoToggle /\ run' = NoRun
    /\ UNCHANGED <<running, bypassed, onmessage, callback, divisions, bars, period,
                   accurate, counters, pending, toWorker, fromWorker, worker,
                   stopRequested, loading, source, globalTimer, globalInterval, taps,
                   measures, onerror, stamps, external>>

\* Timer.available
available == isCompatible

NextConstruct ==
    \/ ConstructorLoaded
    \/ Start
    \/ Stop
    \/ BypassOn
    \/ BypassOff
    \/ StartTimerBody
    \/ StopTimerBody
    \/ OnMessage
    \/ WorkerOnMessage
    \/ WorkerTick

SpecConstruct == InitConstruct /\ [][NextConstruct]_vars

\* ---- the index: one global timer ----------------------------------------------
\* the options given to startTimer(): a worker or worklet type or none, and the
\* divisions a timer constructed by the call gets
StartOptions == [type : {"none", "worker", "worklet"}, divisions : 1..MaxDivisions]

\* the module is loaded and no timer exists; the engine's variables hold what
\* the Timer class initialises a timer with
InitGlobal ==
    /\ Fresh
    /\ callback = FALSE
    /\ timingWorkHandler = FALSE
    /\ loaded = "fulfilled"
    /\ divisions = 1
    /\ bars = 1
    /\ period = CHOOSE p \in Periods : \A q \in Periods : p <= q
    /\ accurate = FALSE
    /\ WorkerLoaded("audiocontext")

\* startTimer(callback, interval, options) of the index: drop the timer when a
\* type is given and it has an adapter, construct one if there is none, then
\* setCallback(callback), BPM = 60000 / interval and start()
GlobalStartTimer(interval, options) ==
    LET create == ~globalTimer \/ (options.type # "none" /\ timingWorkHandler)
        d == IF create THEN options.divisions ELSE divisions
        value == MICROSECONDS_PER_MINUTE \div interval
        time == MICROSECONDS_PER_MINUTE \div Max(MinimumBPM, value)
    IN  /\ MICROSECONDS_PER_MINUTE % interval = 0
        /\ MICROSECONDS_PER_MINUTE % Max(MinimumBPM, value) = 0
        /\ time % d = 0
        /\ globalTimer' = TRUE
        /\ globalInterval' = interval
        /\ callback' = TRUE
        /\ divisions' = d
        /\ period' = time \div d
        /\ IF create
           THEN \* new Timer({...options, callback}): its adapter is being loaded
                /\ running' = FALSE /\ bypassed' = FALSE
                /\ timingWorkHandler' = FALSE /\ onmessage' = "none"
                /\ isCompatible' = FALSE
                /\ loaded' = (IF options.type = "worklet" THEN "pending setTimingWorklet"
                               ELSE "pending setTimingWorker")
                /\ SetCounters(resetTimer)
                /\ toWorker' = <<>> /\ fromWorker' = <<>>
                /\ wIsRunning' = FALSE /\ wTimerID' = FALSE
                /\ pending' = <<Continuation("start", TRUE, FALSE)>>
           ELSE /\ Len(pending) < MaxPending
                /\ IF timingWorkHandler
                   THEN /\ Len(toWorker) < MaxCommands
                        /\ toWorker' = Append(toWorker, UpdatePayload(period'))
                   ELSE UNCHANGED toWorker
                /\ pending' = Append(pending, Continuation("start", TRUE, FALSE))
                /\ UNCHANGED <<running, bypassed, timingWorkHandler, onmessage,
                               isCompatible, loaded, counters, fromWorker, worker>>
        /\ cbInvoked' = FALSE /\ toggleRet' = NoToggle /\ run' = NoRun
        /\ stopRequested' = FALSE
        /\ onerror' = (onerror /\ ~create)
        /\ UNCHANGED <<bars, accurate, loading, source, taps, measures, stamps, external>>

\* startTimer() of the index with each interval and each options
IndexStartTimer == \E interval \in Intervals, options \in StartOptions :
                       GlobalStartTimer(interval, options)

\* stopTimer() of the index
IndexStopTimer == globalTimer /\ Stop

\* resetTimer() of the index
IndexResetTimer == globalTimer /\ ResetTimer

NextGlobal ==
    \/ IndexStartTimer
    \/ IndexStopTimer
    \/ IndexResetTimer
    \/ ConstructorLoaded
    \/ StartTimerBody
    \/ StopTimerBody
    \/ OnMessage
    \/ WorkerOnMessage
    \/ WorkerTick

SpecGlobal == InitGlobal /\ [][NextGlobal]_vars

\* ---- tapping a tempo -----------------------------------------------------------
\* engines of every division count, with or without an adapter
InitTap ==
    /\ Constructed
    /\ divisions \in 1..MaxDivisions
    /\ bars = 1
    /\ period = CHOOSE p \in Periods : \A q \in Periods : p <= q
    /\ accurate = FALSE
    /\ WorkerLoaded("audiocontext")

NextTap ==
    \/ TapTempo
    \/ Start
    \/ StartTimerBody
    \/ OnMessage
    \/ WorkerOnMessage
    \/ WorkerTick

SpecTap == InitTap /\ [][NextTap]_vars

\* ---- counting bars ---------------------------------------------------------------
\* an engine of every bars setting the totalBars setter allows, as the STARTING
\* event of its adapter leaves it: running, with all counters at 0
InitBars ==
    /\ running = TRUE
    /\ bypassed = FALSE
    /\ timingWorkHandler = TRUE
    /\ onmessage = "connected"
    /\ callback \in BOOLEAN
    /\ divisions \in 1..MaxDivisions
    /\ bars \in 1..MAX_BARS_ALLOWED
    /\ period = CHOOSE p \in Periods : \A q \in Periods : p <= q
    /\ accurate = FALSE
    /\ CountersAre(resetTimer)
    /\ pending = <<>> /\ toWorker = <<>> /\ fromWorker = <<>>
    /\ wIsRunning = TRUE /\ wTimerID = TRUE
    /\ cbInvoked = FALSE /\ toggleRet = NoToggle /\ run = NoRun
    /\ stopRequested = FALSE
    /\ loading = NotLoading
    /\ isCompatible = FALSE /\ loaded = "fulfilled"
    /\ globalTimer = FALSE /\ globalInterval = 0
    /\ tapCount = 0 /\ tapGap = 0 /\ tapResult = -1
    /\ pulses = 0 /\ elapsed = 0 /\ tickDrift = 0
    /\ onerror = TRUE
    /\ timestampCache = <<>> /\ stamped = NoStamp
    /\ now = 0 /\ lastRecordedExternalTime = 0 /\ externalTimePassed = 0
    /\ WorkerLoaded("audiocontext")
    /\ wAccurateTiming = FALSE /\ wCumulativeDrift = 0 /\ wTimers = <<>>
    /\ wExit = FALSE /\ wIntervals = 0 /\ wTicks = <<>>

\* a number as a count of its thousandths
Thousandths(x) == 1000 * x

\* worker: elapsed(), `ms` after the worker's startTime: (now() - startTime) * 0.001,
\* in thousandths
workerElapsed(ms) == Thousandths(ms) \div 1000

\* Timer.timeElapsed, `ms` after the engine's startTime: this.now - this.startTime,
\* in thousandths
timeElapsed(ms) == Thousandths(ms)

\* Timer.createTick: drift = timePassed - this.timeElapsed, in thousandths
createTickDrift(timePassed, ms) == timePassed - timeElapsed(ms)

\* a pulse of the adapter `step` ms after the one before, handled at once: the
\* worker's timer posts a tick with its elapsed(), and the handler installed by
\* connectWorker passes it to createTick
TimedPulse(step) ==
    /\ wTimerID
    /\ onmessage = "connected"
    /\ pending = <<>> /\ fromWorker = <<>>
    /\ pulses < MaxPulses
    /\ pulses' = pulses + 1
    /\ elapsed' = elapsed + step
    /\ tickDrift' = createTickDrift(workerElapsed(elapsed'), elapsed')
    /\ SetCounters(createTick)
    /\ cbInvoked' = callbackOnTick
    /\ run' = (IF running THEN NextRun("tick") ELSE NoRun)
    /\ toggleRet' = NoToggle
    /\ UNCHANGED <<running, bypassed, onmessage, callback, config, pending, toWorker,
                   fromWorker, worker, stopRequested, loading, source, construction,
                   taps, onerror, stamps, external>>

\* a pulse at the nominal cadence
Pulse == TimedPulse(period)

\* a pulse that comes early, on time or late
JitteryPulse == \E step \in Steps : TimedPulse(step)

\* an engine of the smallest bar layout as the STARTING event leaves it
InitDrift ==
    /\ InitBars
    /\ divisions = 1
    /\ bars = 1

NextDrift ==
    \/ JitteryPulse
    \/ SetCallback

SpecDrift == InitDrift /\ [][NextDrift]_vars

NextBars ==
    \/ Pulse
    \/ SetCallback

SpecBars == InitBars /\ [][NextBars]_vars

\* ---- leaving bypass ---------------------------------------------------------------
\* engines of the smallest bar layout at every tempo, with a callback, with or
\* without an adapter
InitBypass ==
    /\ Constructed
    /\ callback = TRUE
    /\ divisions = 1
    /\ bars = 1
    /\ period \in Periods
    /\ accurate = FALSE
    /\ WorkerLoaded("audiocontext")

NextBypass ==
    \/ Start
    \/ Stop
    \/ BypassOn
    \/ BypassOff
    \/ TimeBetween
    \/ StartTimerBody
    \/ StopTimerBody
    \/ OnMessage
    \/ WorkerOnMessage
    \/ WorkerTick

SpecBypass == InitBypass /\ [][NextBypass]_vars

\* ---- time-utils: formatTimeStampFromSeconds ---------------------------------
\* times are in thousandths of a second, strings are sequences of characters
MaxCached == 1

\* the times formatted: whole and fractional seconds, below and above a minute and
\* an hour, none of them half-way between two hundredths
StampInputs ==
    {h * 3600000 + m * 60000 + s * 1000 + f :
        h \in {0, 1}, m \in {0, 1}, s \in {0, 5, 59}, f \in {0, 250, 500, 999}}

\* String(n) for a natural number n
RECURSIVE NumberToString(_)
NumberToString(n) ==
    LET digit == <<"0", "1", "2", "3", "4", "5", "6", "7", "8", "9">>[(n % 10) + 1]
    IN  IF n < 10 THEN <<digit>> ELSE Append(NumberToString(n \div 10), digit)

\* the string the function builds for seconds, cache aside
formatTimeStampFromSeconds(seconds) ==
    LET padStart(str) == [i \in 1..(2 - Len(str)) |-> "0"] \o str
        slice(str) == SubSeq(str, 3, Len(str))
        \* Number.toFixed(2) of a fraction below 1, given in thousandths
        toFixed(x) == LET n == (x + 5) \div 10
                      IN  NumberToString(n \div 100) \o <<".">>
                              \o NumberToString((n \div 10) % 10) \o NumberToString(n % 10)
        hours == seconds \div 3600000
        minutes == (seconds % 3600000) \div 60000
        remainingSeconds == seconds % 60000
        milliseconds == slice(toFixed(remainingSeconds % 1000))
    IN  padStart(NumberToString(hours)) \o <<":">> \o padStart(NumberToString(minutes)) \o <<":">>
            \o padStart(NumberToString(remainingSeconds \div 1000)) \o <<":">>
            \o padStart(milliseconds)

\* a call of formatTimeStampFromSeconds: from the cache if it holds the input
FormatTimeStamp ==
    \E seconds \in StampInputs :
        /\ IF seconds \in DOMAIN timestampCache
           THEN /\ stamped' = [seconds |-> seconds, string |-> timestampCache[seconds]]
                /\ UNCHANGED timestampCache
           ELSE /\ Cardinality(DOMAIN timestampCache) < MaxCached
                /\ stamped' = [seconds |-> seconds,
                               string |-> formatTimeStampFromSeconds(seconds)]
                /\ timestampCache' =
                       (seconds :> formatTimeStampFromSeconds(seconds)) @@ timestampCache
        /\ UNCHANGED <<running, bypassed, onmessage, callback, config, counters,
                       pending, toWorker, fromWorker, worker, cbInvoked, toggleRet,
                       run, stopRequested, loading, source, construction, taps,
                       measures, onerror, external>>

SpecStamp == InitSource /\ [][FormatTimeStamp]_vars

\* ---- an external clock driving a bypassed engine ------------------------------
MaxNow == 3

\* time passes between two tasks of the page
ClockAdvance ==
    /\ now < MaxNow
    /\ now' = now + 1
    /\ UNCHANGED <<running, bypassed, onmessage, callback, config, counters,
                   pending, toWorker, fromWorker, worker, cbInvoked, toggleRet,
                   run, stopRequested, rest, onerror, lastRecordedExternalTime,
                   externalTimePassed>>

NextExternal ==
    \/ ClockAdvance
    \/ BypassOn
    \/ Start
    \/ StartTimerBody
    \/ ExternalTrigger
    \/ Retrigger
    \/ ResetTimer

SpecExternal == Init /\ [][NextExternal]_vars

\* ---- errors raised by the timing worker ------------------------------------
\* the payload of the onerror handler: an error text and a time, no command
ErrorPayload == [command |-> "undefined", interval |-> 0, accurateTiming |-> FALSE]

\* an onerror handler that only logs
WorkerErrorSilent ==
    /\ pending = <<>>
    /\ timingWorkHandler
    /\ UNCHANGED vars

\* the worker raises an error event: the handler that connectWorker installed, if
\* any, posts the payload to the worker; nothing else listens
WorkerError ==
    /\ pending = <<>>
    /\ timingWorkHandler
    /\ IF onerror
       THEN /\ Len(toWorker) < MaxCommands
            /\ toWorker' = Append(toWorker, ErrorPayload)
       ELSE UNCHANGED toWorker
    /\ UNCHANGED <<running, bypassed, onmessage, callback, config, counters,
                   pending, fromWorker, worker, cbInvoked, toggleRet, run,
                   stopRequested>>
    /\ UNCHANGED aside

NextError ==
    \/ Start
    \/ Stop
    \/ BypassOn
    \/ BypassOff
    \/ TimeBetween
    \/ StartTimerBody
    \/ StopTimerBody
    \/ OnMessage
    \/ WorkerOnMessage
    \/ WorkerTick
    \/ WorkerError

SpecError == InitBypass /\ [][NextError]_vars

\* the body of the startTimer() that bypass(false) called: unlike start(), which
\* passes the callback of the engine, bypass passes none
RestartBody == StartTimerBody /\ callback /\ ~Head(pending).cb

Next ==
    \/ Start
    \/ Stop
    \/ Toggle
    \/ BypassOn
    \/ BypassOff
    \/ ExternalTrigger
    \/ Retrigger
    \/ ResetTimer
    \/ SetCallback
    \/ StartTimerBody
    \/ StopTimerBody
    \/ ToggleReturn
    \/ OnMessage
    \/ WorkerOnMessage
    \/ WorkerTick

Spec == Init /\ [][Next]_vars

SpecOptions == InitOptions /\ [][Next]_vars

\* starting, stopping and changing the tempo of an adapter-driven engine
NextTempo ==
    \/ Start
    \/ Stop
    \/ SetCallback
    \/ TimeBetween
    \/ StartTimerBody
    \/ StopTimerBody
    \/ OnMessage
    \/ WorkerOnMessage
    \/ WorkerTick

SpecTempo == Init /\ [][NextTempo]_vars

\* the host calls the engine between two tasks, when no continuation is queued and
\* the worker has taken every command
HostCall ==
    /\ pending = <<>>
    /\ toWorker = <<>>
    /\ \/ Start
       \/ Stop
       \/ TimeBetween

NextStart ==
    \/ HostCall
    \/ StartTimerBody
    \/ StopTimerBody
    \/ OnMessage
    \/ WorkerOnMessage
    \/ WorkerTick

\* every queued continuation runs and every posted message is handled: the event
\* loops of the page and of the worker starve neither microtasks nor message events
\* (strong fairness: a message waits while its receiver's queue is full or a
\* continuation is queued, and is handled once that has passed), and the timer of
\* a running worker keeps firing
SpecStart ==
    /\ Init
    /\ [][NextStart]_vars
    /\ WF_vars(StartTimerBody)
    /\ WF_vars(StopTimerBody)
    /\ SF_vars(WorkerOnMessage)
    /\ SF_vars(OnMessage)
    /\ WF_vars(WorkerTick)

\* setting the tempo, the bars and the bar of an adapter-driven engine
NextSetters ==
    \/ Start
    \/ ChangeBPM
    \/ ChangeTimeBetween
    \/ TapTempo
    \/ ChangeTotalBars
    \/ ChangeBar
    \/ StartTimerBody
    \/ OnMessage
    \/ WorkerOnMessage
    \/ WorkerTick

SpecSetters == InitSetters /\ [][NextSetters]_vars

\* starting and stopping an engine whose adapter is replaced
NextReinit ==
    \/ Start
    \/ Stop
    \/ SetTimingWorklet
    \/ StartTimerBody
    \/ StopTimerBody
    \/ UnsetStopBody
    \/ UnsetBody
    \/ AdapterLoaded
    \/ OnMessage
    \/ WorkerOnMessage
    \/ WorkerTick

SpecReinit == Init /\ [][NextReinit]_vars

\* ---- properties ----------------------------------------------------------
\* the engine handles a `starting` signal with the handler connectWorker installed
OnStarting ==
    /\ fromWorker # <<>>
    /\ Head(fromWorker).event = EVENT_STARTING
    /\ onmessage = "connected"
    /\ OnMessage

\* the engine handles an adapter pulse
OnPulse ==
    /\ fromWorker # <<>>
    /\ Head(fromWorker).event = EVENT_TICK
    /\ OnMessage

\* nothing is in flight between the engine and the worker and the worker is idle
Quiescent ==
    /\ pending = <<>>
    /\ toWorker = <<>>
    /\ fromWorker = <<>>
    /\ ~wTimerID

\* the engine's own state, without the observations and the worker's side
engine == <<running, bypassed, timingWorkHandler, onmessage, callback, divisions, bars,
            period, accurate, currentBar, divisionsElapsed, totalBarsElapsed,
            pending, toWorker>>

\* a series of n pulses counted from divisionsElapsed = 0 has not come back to 0
\* before its divisions-th pulse, and has come back with one bar more on it
SeriesWrapsOnce ==
    /\ run.n < divisions => divisionsElapsed = run.n /\ totalBarsElapsed = run.bars0
    /\ run.n = divisions => divisionsElapsed = 0 /\ totalBarsElapsed = run.bars0 + 1

\* the engine handles an adapter pulse with the handler connectWorker installed
OnConnectedPulse == OnPulse /\ onmessage = "connected"

\* the worker handles an interval update while it runs for a running engine
OnUpdate ==
    /\ toWorker # <<>>
    /\ Head(toWorker).command = CMD_UPDATE
    /\ wIsRunning /\ running /\ onmessage = "connected"
    /\ WorkerOnMessage

\* C1: in every reachable state 0 <= divisionsElapsed < divisions.
DivisionsElapsedInRange == 0 <= divisionsElapsed /\ divisionsElapsed < divisions

\* C2: d consecutive adapter ticks from divisionsElapsed = 0 on a running
\* engine bring divisionsElapsed back to 0 exactly once, on the d-th tick, and
\* increase totalBarsElapsed by exactly 1.
TickSeriesWrapsOnce == run.src = "tick" => SeriesWrapsOnce

\* C2 witness: a series of adapter ticks has completed a bar of several divisions
TickSeriesCompleted == run.src = "tick" /\ run.n = divisions /\ divisions > 1 /\ running

\* C3: in bypassed mode, `divisions` externalTrigger() calls from
\* divisionsElapsed = 0 wrap divisionsElapsed to 0 exactly once and move the bar
\* counters as the same number of adapter ticks would.
ExternalSeriesWrapsOnce == (run.src = "ext" /\ bypassed) => SeriesWrapsOnce

\* C4: retrigger() never changes divisionsElapsed, currentBar or totalBarsElapsed.
RetriggerKeepsCounters ==
    [][Retrigger => UNCHANGED <<divisionsElapsed, currentBar, totalBarsElapsed>>]_vars

StopSettles == (stopRequested /\ Quiescent) => ~running

\* C8: toggle() starts a stopped engine and stops a running one, bypassed or
\* not, and returns true after starting and false after stopping.
ToggleReturnsResult ==
    /\ toggleRet.did # "bypassed"
    /\ toggleRet.did = "start" => toggleRet.ret
    /\ toggleRet.did = "stop" => ~toggleRet.ret

\* C9: while the engine is bypassed an adapter pulse neither moves the counters
\* nor invokes the callback.
BypassedIgnoresPulses ==
    [][(OnPulse /\ bypassed) =>
        (UNCHANGED <<currentBar, divisionsElapsed, totalBarsElapsed>> /\ ~cbInvoked')]_vars

\* C10: bypass(true) leaves the counters and the running flag unchanged, and on
\* an engine already bypassed it changes nothing at all.
BypassOnPreserves ==
    [][BypassOn =>
        /\ UNCHANGED <<currentBar, divisionsElapsed, totalBarsElapsed, running>>
        /\ bypassed => UNCHANGED engine]_vars

\* C10 witness: bypass(true) has detached the adapter of a running engine in mid-bar
BypassedWhileRunning ==
    /\ bypassed /\ running /\ onmessage = "detached"
    /\ toWorker # <<>> /\ toWorker[Len(toWorker)].command = CMD_STOP
    /\ divisionsElapsed > 0

CallbackIffRunning ==
    [][OnPulse => (cbInvoked' <=> (running /\ callback))]_vars

\* C12 as amended: the callback is invoked for an adapter pulse if and only if
\* a callback is registered, the engine is running and the tick handler that
\* start() installed is still in place when the pulse is handled; it is never
\* invoked while the engine is not running.
CallbackIffRunningAndConnected ==
    [][OnPulse =>
        /\ cbInvoked' <=> (running /\ callback /\ onmessage = "connected")
        /\ ~running => ~cbInvoked']_vars

\* C12 witness: a pulse is about to be handled by a stopped engine that has a callback
PulseWhileStoppedWithCallback ==
    /\ fromWorker # <<>> /\ Head(fromWorker).event = EVENT_TICK
    /\ pending = <<>> /\ onmessage = "connected"
    /\ ~running /\ callback

\* C13: a tempo change on a running engine posts one interval update, keeps
\* running and the counters as they are, and the worker that handles the update
\* emits no `starting` signal and no immediate pulse.
UpdateKeepsCadence ==
    [][ /\ (TimeBetween /\ running /\ timingWorkHandler) =>
              /\ toWorker' = Append(toWorker,
                      [command |-> CMD_UPDATE, interval |-> period', accurateTiming |-> FALSE])
              /\ running'
              /\ UNCHANGED <<currentBar, divisionsElapsed, totalBarsElapsed>>
        /\ OnUpdate => (fromWorker' = fromWorker /\ wIsRunning') ]_vars

\* C14: a start() or stop() issued while the adapter is being replaced is
\* deferred: its body does not run before the new adapter is attached.
DeferredWhileLoading ==
    [][(StartTimerBody \/ StopTimerBody) => ~loading.active]_vars

\* C15: after any sequence of tempo mutations the effective BPM,
\* MICROSECONDS_PER_MINUTE / (period * divisions), is at least 10.
BPMAtLeastMinimum == MICROSECONDS_PER_MINUTE >= MinimumBPM * (period * divisions)

\* C16: after construction with any bars option and after any use of the bars
\* setter, 1 <= bars <= 32.
BarsInRange == 1 <= bars /\ bars <= MAX_BARS_ALLOWED

\* C17: in every reachable state 0 <= currentBar < bars.
CurrentBarInRange == 0 <= currentBar /\ currentBar < bars

\* C18: while the engine stays running, totalBarsElapsed never decreases in a
\* step that is not a call of resetTimer().
TotalBarsNeverDecrease ==
    [][(running /\ running' /\ ~ResetTimer) => totalBarsElapsed' >= totalBarsElapsed]_vars

Abs(x) == IF x < 0 THEN -x ELSE x

\* C19: in every worker the spacing of each scheduled pulse is within a tenth
\* of the drift last given of the nominal interval (spacings are in tenths of a
\* ms, the drift in ms), and so never off by the full drift.
DriftIsDamped ==
    \A i \in 1..Len(wTimers) : Abs(wTimers[i] - 10 * wGap) <= Abs(wCumulativeDrift)

\* C20: in a worker whose accurate flag is false an adjustDrift message leaves
\* the timer loops as they are, and every pulse after it is scheduled at the
\* nominal interval.
DriftIsOptIn ==
    [][~wAccurateTiming =>
        /\ SourceAdjustDrift => wTimers' = wTimers
        /\ SourcePulse => \A i \in 1..Len(wTimers') : wTimers'[i] = 10 * wGap]_vars

\* C21: within one run of a time source (from its STARTING event to its stop)
\* each tick carries a larger `intervals` number than the tick posted before
\* it, so that no number is delivered twice.
TickNumbersIncrease == Len(wTicks) = 2 => wTicks[1] < wTicks[2]

\* the constructor's adapter set-up has settled without an adapter
AdapterFailed == loaded \in LoadedSettled /\ ~timingWorkHandler

\* C22: once the constructor's adapter set-up has settled, `available` is true
\* if an adapter is attached and false if creating it failed.
AvailableIffAttached == loaded \in LoadedSettled => (available <=> timingWorkHandler)

\* C23: after the adapter failed to initialise, the body of a start() or stop()
\* on an engine that is not bypassed does not throw, and leaves running false.
StartStopCompleteAfterFailure ==
    [][(AdapterFailed /\ ~bypassed /\ ~running) =>
        /\ StartTimerBody => (~awaitLoadedThrows /\ ~connectWorkerThrows /\ ~running')
        /\ StopTimerBody => (~awaitLoadedThrows /\ ~running')]_vars

\* C24: an engine whose adapter could not be created has a rejected `loaded`:
\* `loaded` is never fulfilled with no adapter attached.
FailureSurfaces == loaded = "fulfilled" => timingWorkHandler

\* C25: the start message that a startTimer(callback, interval) of the index
\* leads to carries that interval as its pulse interval.
GlobalStartUsesInterval ==
    [][(globalTimer /\ StartTimerBody /\ toWorker' # toWorker) =>
        toWorker'[Len(toWorker')].interval = globalInterval]_vars

BarsWrapAfterFullCycle ==
    (running /\ pulses = bars * divisions) => (currentBar = 0 /\ totalBarsElapsed = bars)

\* an engine of the most bars allowed and several divisions has counted a full cycle
FullCycleOfMostBars ==
    /\ running
    /\ bars = MAX_BARS_ALLOWED
    /\ divisions > 1
    /\ pulses = bars * divisions
    /\ totalBarsElapsed = MAX_BARS_ALLOWED

\* C29: when the adapter and the engine have measured the same time since the
\* start, the drift of every TickEvent is 0.
DriftIsZero == tickDrift = 0

\* what bypass(false) does at once on a bypassed engine: the flag is cleared,
\* nothing is posted, and startTimer() is called if the engine is running
BypassOffClears ==
    (BypassOff /\ bypassed) =>
        /\ ~bypassed'
        /\ toWorker' = toWorker
        /\ pending' = (IF running THEN Append(pending, Continuation("start", FALSE, FALSE))
                       ELSE pending)

\* C30 as claimed: bypass(false) on a bypassed engine clears the flag; if the
\* engine is running, the startTimer() it calls posts a start message with the
\* current period, and if it is not running nothing is posted.
BypassOffRestarts ==
    [][/\ BypassOffClears
       /\ RestartBody => toWorker' = Append(toWorker, StartPayload(period, accurate))]_vars

\* C30 as amended: the startTimer() called by bypass(false) posts the start
\* message with the current period when an adapter is attached and the engine
\* has not been bypassed again by then; otherwise it posts nothing.
BypassOffRestartsIfAttached ==
    [][/\ BypassOffClears
       /\ RestartBody =>
            IF ~bypassed /\ timingWorkHandler
            THEN toWorker' = Append(toWorker, StartPayload(period, accurate))
            ELSE toWorker' = toWorker]_vars

\* bypass(false) has called startTimer() on a running engine whose adapter
\* bypass(true) had detached
RestartQueued ==
    /\ running /\ ~bypassed /\ timingWorkHandler /\ callback
    /\ onmessage = "detached"
    /\ pending # <<>>
    /\ Head(pending).op = "start" /\ ~Head(pending).cb
\* C31: whenever the worker can raise an error while the engine is running, the
\* engine posts one diagnostic message back to the worker (and, WorkerError
\* changing nothing else, running, bypassed and the counters stay as they were)
ErrorWhileRunningIsReported ==
    (running /\ timingWorkHandler /\ pending = <<>> /\ Len(toWorker) < MaxCommands)
        => ENABLED (WorkerError /\ toWorker' = Append(toWorker, ErrorPayload))

\* C31, amended: once a start has connected the engine to the worker, an error the
\* worker raises while the engine is running makes the engine post one diagnostic
\* message to the worker, leaving running, bypassed and the counters unchanged
ConnectedErrorIsReported ==
    (running /\ onerror /\ timingWorkHandler /\ pending = <<>>
        /\ Len(toWorker) < MaxCommands)
        => ENABLED (WorkerError /\ toWorker' = Append(toWorker, ErrorPayload)
                        /\ UNCHANGED <<running, bypassed, counters>>)
\* C31 witness: the diagnostic is on its way to the worker of a running engine
ErrorReportedWhileRunning ==
    /\ running
    /\ ~bypassed
    /\ toWorker # <<>>
    /\ toWorker[Len(toWorker)] = ErrorPayload
\* C32: resetTimer() sets currentBar, divisionsElapsed and totalBarsElapsed to 0 and
\* changes nothing else: the adapter stays attached, no control message is sent,
\* running, bypassed, period and bars keep their values
ResetTimerOnlyZeroes ==
    [][ResetTimer =>
        /\ currentBar' = 0 /\ divisionsElapsed' = 0 /\ totalBarsElapsed' = 0
        /\ UNCHANGED <<running, bypassed, onmessage, callback, config, pending,
                       toWorker, fromWorker, worker, onerror>>]_vars

\* C32 witness: a running engine whose counters were reset outside any bar series,
\* with nothing on its way to or from the adapter
ResetWhileRunning ==
    /\ running
    /\ timingWorkHandler
    /\ onmessage = "connected"
    /\ wIsRunning
    /\ CountersAre(resetTimer)
    /\ run = NoRun
    /\ ~cbInvoked
    /\ toWorker = <<>>
    /\ fromWorker = <<>>
    /\ pending = <<>>
\* the time a string HH:MM:SS:CC reads as, in thousandths of a second
StampValue(str) ==
    LET value(c) == CHOOSE d \in 0..9 : NumberToString(d) = <<c>>
        field(i) == 10 * value(str[i]) + value(str[i + 1])
    IN  (field(1) * 3600 + field(4) * 60 + field(7)) * 1000 + field(10) * 10

\* C33: every string formatTimeStampFromSeconds returns, computed or memoised, has
\* the form HH:MM:SS:CC and reads back as a time less than one hundredth of a second
\* away from the input
StampReadsBack ==
    stamped # NoStamp =>
        LET str == stamped.string
        IN  /\ Len(str) = 11
            /\ \A i \in 1..11 :
                   IF i \in {3, 6, 9} THEN str[i] = ":"
                   ELSE \E d \in 0..9 : NumberToString(d) = <<str[i]>>
            /\ StampValue(str) - stamped.seconds < 10
            /\ stamped.seconds - StampValue(str) < 10
\* start() has just been called on a stopped, non-bypassed engine with an adapter
\* attached and nothing on its way to or from the adapter
StartCalledOnStopped ==
    /\ pending # <<>>
    /\ Head(pending).op = "start"
    /\ ~running
    /\ ~bypassed
    /\ timingWorkHandler
    /\ toWorker = <<>>
    /\ fromWorker = <<>>

\* C34: start() on a stopped, non-bypassed engine with an adapter attached leads to
\* running = TRUE (unless a stop() is called first), whatever tempo and period
\* setters and stop() calls came before
StartLeadsToRunning == StartCalledOnStopped ~> (running \/ stopRequested)
\* C35: a tempo or period change on an engine that is not running posts no control
\* message, and the adapter begins to emit pulses on a start command only
StoppedTempoChangeIsSilent ==
    [][ /\ (TimeBetween /\ ~running) => UNCHANGED toWorker
        /\ (~wIsRunning /\ wIsRunning') => Head(toWorker).command = CMD_START ]_vars
\* C36: in every worker a start that follows any number of stop commands leaves
\* the worker running with a timer loop alive, so that periodic ticks follow the
\* `starting` event until the next stop
StartAfterStopTicks ==
    [][(SourceStart /\ ~wIsRunning) => (wIsRunning' /\ wTimers' # <<>>)]_vars
\* C37: in every worker at most one timer loop is active, and a worker that was
\* stopped has none that could post a tick (the rolling worker's last loop is
\* still to run into its exit flag)
SingleTimerLoop ==
    /\ Len(wTimers) <= 1
    /\ (~wIsRunning /\ ~wExit) => wTimers = <<>>
\* C38: the first tick of every run, the one start() posts after the `starting`
\* event, carries the sequence number 0, in the first run and in every later one
FirstTickIsZero ==
    [][((SourceStart \/ SourceUpdate) /\ ~wIsRunning) => wTicks' = <<0>>]_vars
\* C40: a start command the worker receives while stopped makes it post exactly one
\* `starting` event and then the first tick; a start or an interval update it
\* receives while running makes it post no `starting` event
StartingOncePerRun ==
    [][WorkerOnMessage =>
        LET command == Head(toWorker).command IN
        /\ (command = CMD_START /\ ~wIsRunning) =>
               fromWorker' = fromWorker \o <<Event(EVENT_STARTING), Event(EVENT_TICK)>>
        /\ (command \in {CMD_START, CMD_UPDATE} /\ wIsRunning) =>
               fromWorker' = Append(fromWorker, Event(EVENT_TICK))]_vars

\* C40 witness: the worker of a stopped engine has handled the start command, and
\* the engine is about to find one `starting` event and the first tick behind it
StartAnnounced ==
    /\ wIsRunning
    /\ ~running
    /\ ~stopRequested
    /\ onmessage = "connected"
    /\ toWorker = <<>>
    /\ pending = <<>>
    /\ fromWorker = <<Event(EVENT_STARTING), Event(EVENT_TICK)>>
\* C39: in bypassed running mode the TickEvent of an externalTrigger call that is
\* not the first reports the time on the engine's clock between the previous
\* externalTrigger call and this one
ExternalIntervalReported ==
    [][((ExternalTrigger \/ Retrigger) /\ running /\ bypassed
            /\ lastRecordedExternalTime > 0) =>
        externalTimePassed' = now - lastRecordedExternalTime]_vars
====
